---------------------------- MODULE Spec2Model ----------------------------
(***************************************************************************)
(* sonata-log: the ingestion pipeline of app.py and the interval metrics   *)
(* engine of analyzer.py.                                                  *)
(*                                                                         *)
(* Times are counted in ticks of 0.5 s, the finest grain the engine adds   *)
(* to a timestamp (the padding), so 2.0 s is 4 ticks and 0.5 s is 1 tick.  *)
(***************************************************************************)
EXTENDS Integers, Sequences, FiniteSets, TLC

(***************************************************************************)
(* analyzer.py: calculate_metrics_from_midi                                *)
(***************************************************************************)

\* MIN_VELOCITY = 70
MIN_VELOCITY == 70

\* gap_threshold = 2.0 (seconds) = 4 ticks
gap_threshold == 4

\* the 0.5 s of padding on both ends of a sealed span = 1 tick
padding == 1

\* What mido reads at a path: the messages of the file in playback order
\* (msg.time is the delta to the message before), or a file it cannot parse,
\* on which mido.MidiFile raises.
MidiOf(events) == [readable |-> TRUE, events |-> events]
CorruptMidi == [readable |-> FALSE, events |-> <<>>]

Max2(a, b) == IF a >= b THEN a ELSE b
Min2(a, b) == IF a <= b THEN a ELSE b

\* active_notes is a dict (note -> start_time); a dict keeps insertion order,
\* which is the order "for note, start_t in active_notes.items()" visits.
\* It is modelled as the sequence of its items.
DictHas(d, k) == \E i \in 1..Len(d) : d[i].note = k

DictGet(d, k) == (CHOOSE i \in 1..Len(d) : d[i].note = k)

\* d[k] = v : an existing key keeps its position, a new key goes last.
DictSet(d, k, v) ==
    IF DictHas(d, k)
    THEN [i \in 1..Len(d) |-> IF d[i].note = k THEN [note |-> k, start |-> v] ELSE d[i]]
    ELSE Append(d, [note |-> k, start |-> v])

\* d.pop(k), the remaining dict
DictPop(d, k) == SelectSeq(d, LAMBDA e : e.note # k)

\* The state of the loop "for msg in mid" before the first message.
LoopInit ==
    [current_time |-> 0, keystrokes |-> 0, active_notes |-> <<>>,
     valid_raw_intervals |-> <<>>]

\* a faulty variant: the key is tracked for any attack with a velocity above 0, and
\* only the attacks at or above the threshold are counted as keystrokes
ProcessMsgTracksAnyAttack(st, msg) ==
    LET t == st.current_time + msg.time IN
    IF msg.type = "note_on" /\ msg.velocity > 0
    THEN [st EXCEPT !.current_time = t,
                    !.keystrokes = IF msg.velocity >= MIN_VELOCITY THEN @ + 1 ELSE @,
                    !.active_notes = DictSet(@, msg.note, t)]
    ELSE IF msg.type = "note_off" \/ (msg.type = "note_on" /\ msg.velocity = 0)
    THEN IF DictHas(st.active_notes, msg.note)
         THEN LET start_t == st.active_notes[DictGet(st.active_notes, msg.note)].start IN
              [st EXCEPT !.current_time = t,
                         !.active_notes = DictPop(@, msg.note),
                         !.valid_raw_intervals =
                             IF t > start_t THEN Append(@, <<start_t, t>>) ELSE @]
         ELSE [st EXCEPT !.current_time = t]
    ELSE [st EXCEPT !.current_time = t]

\* a faulty variant: every attack with a velocity above 0 is a keystroke, and
\* only the attacks at or above the threshold are tracked
ProcessMsgCountsAnyAttack(st, msg) ==
    LET t == st.current_time + msg.time IN
    IF msg.type = "note_on" /\ msg.velocity > 0
    THEN [st EXCEPT !.current_time = t,
                    !.keystrokes = @ + 1,
                    !.active_notes = IF msg.velocity >= MIN_VELOCITY
                                     THEN DictSet(@, msg.note, t) ELSE @]
    ELSE IF msg.type = "note_off" \/ (msg.type = "note_on" /\ msg.velocity = 0)
    THEN IF DictHas(st.active_notes, msg.note)
         THEN LET start_t == st.active_notes[DictGet(st.active_notes, msg.note)].start IN
              [st EXCEPT !.current_time = t,
                         !.active_notes = DictPop(@, msg.note),
                         !.valid_raw_intervals =
                             IF t > start_t THEN Append(@, <<start_t, t>>) ELSE @]
         ELSE [st EXCEPT !.current_time = t]
    ELSE [st EXCEPT !.current_time = t]

\* One pass of the loop body (lines 146-159).
ProcessMsg(st, msg) ==
    LET t == st.current_time + msg.time IN
    IF msg.type = "note_on" /\ msg.velocity >= MIN_VELOCITY
    THEN [st EXCEPT !.current_time = t,
                    !.keystrokes = @ + 1,
                    !.active_notes = DictSet(@, msg.note, t)]
    ELSE IF msg.type = "note_off" \/ (msg.type = "note_on" /\ msg.velocity = 0)
    THEN IF DictHas(st.active_notes, msg.note)
         THEN LET start_t == st.active_notes[DictGet(st.active_notes, msg.note)].start IN
              [st EXCEPT !.current_time = t,
                         !.active_notes = DictPop(@, msg.note),
                         !.valid_raw_intervals =
                             IF t > start_t THEN Append(@, <<start_t, t>>) ELSE @]
         ELSE [st EXCEPT !.current_time = t]
    ELSE [st EXCEPT !.current_time = t]

RECURSIVE RunLoop(_, _)
RunLoop(st, msgs) ==
    IF msgs = <<>> THEN st
    ELSE RunLoop(ProcessMsg(st, Head(msgs)), Tail(msgs))

\* a faulty variant: the notes still pending at the end are dropped
CloseLingeringDropsPending(raw, notes, current_time) == raw

\* "Close any lingering notes" (lines 162-164): the raw intervals after it.
RECURSIVE CloseLingering(_, _, _)
CloseLingering(raw, notes, current_time) ==
    IF notes = <<>> THEN raw
    ELSE CloseLingering(
            IF current_time > Head(notes).start
            THEN Append(raw, <<Head(notes).start, current_time>>)
            ELSE raw,
            Tail(notes), current_time)

\* list.sort(key=lambda x: x[0]) is stable: x goes after the items whose
\* start is not greater than its own.
RECURSIVE InsertByStart(_, _)
InsertByStart(sorted, x) ==
    IF sorted = <<>> THEN <<x>>
    ELSE IF Head(sorted)[1] <= x[1]
         THEN <<Head(sorted)>> \o InsertByStart(Tail(sorted), x)
         ELSE <<x>> \o sorted

RECURSIVE SortByStart(_)
SortByStart(s) ==
    IF s = <<>> THEN <<>>
    ELSE InsertByStart(SortByStart(SubSeq(s, 1, Len(s) - 1)), s[Len(s)])

\* a faulty variant: a span is sealed as it is, without the padding
SealUnpadded(curr_start, curr_end, duration_orig) ==
    <<Max2(0, curr_start), Min2(duration_orig, curr_end)>>

\* start_padded, end_padded (lines 188-190 and 196-198)
Seal(curr_start, curr_end, duration_orig) ==
    <<Max2(0, curr_start - padding), Min2(duration_orig, curr_end + padding)>>

\* a faulty variant: the merge test without the tolerance
CloseEnoughNoTolerance(next_start, curr_end) == next_start - curr_end <= 0

\* "if next_start - curr_end <= gap_threshold" (line 183)
CloseEnough(next_start, curr_end) == next_start - curr_end <= gap_threshold

\* a faulty variant: a merged span ends where the interval merged last ends
RECURSIVE MergeLoopLastEnd(_, _, _, _, _)
MergeLoopLastEnd(curr_start, curr_end, rest, merged, duration_orig) ==
    IF rest = <<>>
    THEN Append(merged, Seal(curr_start, curr_end, duration_orig))
    ELSE LET next_start == Head(rest)[1]
             next_end == Head(rest)[2]
         IN  IF CloseEnough(next_start, curr_end)
             THEN MergeLoopLastEnd(curr_start, next_end, Tail(rest),
                                   merged, duration_orig)
             ELSE MergeLoopLastEnd(next_start, next_end, Tail(rest),
                                   Append(merged, Seal(curr_start, curr_end, duration_orig)),
                                   duration_orig)

\* The loop of lines 180-193 over the rest of the sorted intervals, then the
\* last seal of lines 196-198.
RECURSIVE MergeLoop(_, _, _, _, _)
MergeLoop(curr_start, curr_end, rest, merged, duration_orig) ==
    IF rest = <<>>
    THEN Append(merged, Seal(curr_start, curr_end, duration_orig))
    ELSE LET next_start == Head(rest)[1]
             next_end == Head(rest)[2]
         IN  IF CloseEnough(next_start, curr_end)
             THEN MergeLoop(curr_start, Max2(curr_end, next_end), Tail(rest),
                            merged, duration_orig)
             ELSE MergeLoop(next_start, next_end, Tail(rest),
                            Append(merged, Seal(curr_start, curr_end, duration_orig)),
                            duration_orig)

RECURSIVE SumDurations(_)
SumDurations(merged) ==
    IF merged = <<>> THEN 0
    ELSE (Head(merged)[2] - Head(merged)[1]) + SumDurations(Tail(merged))

\* A float ratio is kept exact, as numerator over denominator; 0 and 0.0 are 0/1.
Ratio(n, d) == [num |-> n, den |-> d]
ZeroRatio == Ratio(0, 1)

\* The raw intervals handed to the merge: the loop, then the lingering notes.
RawIntervals(events) ==
    LET st == RunLoop(LoopInit, events)
    IN  CloseLingering(st.valid_raw_intervals, st.active_notes, st.current_time)

\* The "return None" of the except branch (lines 210-212); ok tells the
\* dict of lines 204-209 from None.
NoMetrics ==
    [ok |-> FALSE, active_duration |-> 0, efficiency |-> ZeroRatio,
     keystrokes |-> 0, intervals |-> <<>>]

\* calculate_metrics_from_midi(midi_path, duration_orig); mid is what mido
\* reads at midi_path.
calculate_metrics_from_midi(mid, duration_orig) ==
    IF ~mid.readable THEN NoMetrics
    ELSE
    LET st == RunLoop(LoopInit, mid.events)
        raw == RawIntervals(mid.events)
        sorted == SortByStart(raw)
        merged == IF raw = <<>> THEN <<>>
                  ELSE MergeLoop(sorted[1][1], sorted[1][2], Tail(sorted), <<>>,
                                 duration_orig)
        active == SumDurations(merged)
    IN  [ok |-> TRUE,
         active_duration |-> active,
         efficiency |-> IF raw = <<>> THEN ZeroRatio
                        ELSE IF duration_orig > 0 THEN Ratio(active, duration_orig)
                        ELSE ZeroRatio,
         keystrokes |-> st.keystrokes,
         intervals |-> merged]


(***************************************************************************)
(* Files, directories and the store                                        *)
(***************************************************************************)

\* The recordings that reach the inbox: what librosa and the transcription
\* model make of their bytes.
Contents == {"etude", "scales", "silence", "garbage"}

\* librosa.load(file_path, sr=None) raises on bytes that are no audio.
Decodable(c) == c # "garbage"

\* "len(rms) == 0 or np.max(rms) == 0": the samples are all zero.
RmsAllZero(c) == c = "silence"

\* duration_orig = float(len(y) / sr), in ticks
DurationOf(c) ==
    CASE c = "etude" -> 20
      [] c = "scales" -> 12
      [] OTHER -> 10

Msg(type, note, velocity, time) ==
    [type |-> type, note |-> note, velocity |-> velocity, time |-> time]

\* The notes the transcription model hears in a recording.
TranscriptOf(c) ==
    CASE c = "etude" ->
            << Msg("note_on", 60, 80, 0), Msg("note_off", 60, 64, 6),
               Msg("note_on", 62, 80, 3), Msg("note_off", 62, 64, 1) >>
      [] c = "scales" ->
            << Msg("note_on", 60, 80, 1), Msg("note_on", 62, 40, 1),
               Msg("note_on", 60, 0, 1) >>
      [] OTHER -> <<>>

\* generate_waveform_data(y_norm, sr): the envelope of the samples
generate_waveform_data(c) == <<"envelope", c>>

\* A file is its bytes: the recording it holds and its size (0: created and
\* nothing written yet, 1: whole).
FileOf(c, size) == [content |-> c, size |-> size]
EmptyFile == FileOf("", 0)

\* How many bytes a whole recording has; two of them have as many.
BytesOf(c) ==
    CASE c = "etude" -> 3
      [] c = "scales" -> 2
      [] c = "silence" -> 2
      [] OTHER -> 1

\* os.path.getsize(path), os.stat(path).st_size
getsize(file) == file.size * BytesOf(file.content)

\* get_file_hash(file_path): SHA-256 of the bytes, as a hex string
get_file_hash(file) ==
    CASE file.size = 0 -> "e3b0c4"
      [] file.content = "etude" -> "e7a1c3"
      [] file.content = "scales" -> "5c41e5"
      [] file.content = "silence" -> "0051e2"
      [] OTHER -> "9a4ba9"

\* A file name is its stem, a sequence of the parts joined by "_"; every
\* file carries the extension .wav.
Names == {<<"a">>, <<"b">>}

\* f"{base}_{file_hash[:6]}{ext}"
Disambiguated(f, file_hash) == Append(f, file_hash)

\* name_without_ext + "_basic_pitch.mid": the artifact of a source name,
\* named by the stem it keeps
MidiNameOf(f) == f

\* midi_filename = None, midi_url NULL
NoMidi == <<>>

\* A directory maps the names in it to files.
EmptyDir == [n \in {} |-> EmptyFile]
Exists(dir, n) == n \in DOMAIN dir
Put(dir, n, file) == [x \in DOMAIN dir \cup {n} |-> IF x = n THEN file ELSE dir[x]]
Remove(dir, n) == [x \in DOMAIN dir \ {n} |-> dir[x]]

\* An artifact in the MIDI folder: what mido reads in it, and the recording
\* it was transcribed from.
Artifact(c, mid) == [from |-> c, mid |-> mid]
EmptyMidiDir == [n \in {} |-> Artifact("", CorruptMidi)]

(***************************************************************************)
(* analyzer.py: analyze_audio                                              *)
(***************************************************************************)

\* What predict_and_save may do: write the artifact ("ok"), write one mido
\* cannot parse ("unreadable"), raise ("raise"), or return without the
\* expected file ("missing"). The last two leave the same behind them, no
\* artifact, and the analysis records both as "absent".
Outcomes == {"ok", "unreadable", "raise", "missing"}

\* The dict analyze_audio returns.
AnalysisResult(c, metrics, midi_filename) ==
    [total_duration |-> DurationOf(c),
     active_duration |-> metrics.active_duration,
     efficiency |-> metrics.efficiency,
     keystrokes |-> metrics.keystrokes,
     intervals |-> metrics.intervals,
     waveform |-> generate_waveform_data(c),
     midi_filename |-> midi_filename]

\* lines 83-87: the old artifact at the expected path is removed
WithoutOld(mididir, expected) ==
    IF Exists(mididir, expected) THEN Remove(mididir, expected) ELSE mididir

\* a faulty variant: a failed transcription gives the analysis up (the caller sees
\* the exception) instead of falling back to the zero values
analyze_audio_gives_up(file, f, mididir, outcome) ==
    LET c == file.content
        expected == MidiNameOf(f)
        cleaned == WithoutOld(mididir, expected)
    IN  IF ~Decodable(c)
        THEN [raised |-> TRUE, trans |-> "none", mididir |-> mididir,
              result |-> AnalysisResult(c, NoMetrics, NoMidi)]
        ELSE IF RmsAllZero(c)
        THEN [raised |-> FALSE, trans |-> "skipped", mididir |-> mididir,
              result |-> AnalysisResult(c, NoMetrics, NoMidi)]
        ELSE IF outcome = "ok"
        THEN LET mid == MidiOf(TranscriptOf(c)) IN
             [raised |-> FALSE, trans |-> "ok",
              mididir |-> Put(cleaned, expected, Artifact(c, mid)),
              result |-> AnalysisResult(c,
                             calculate_metrics_from_midi(mid, DurationOf(c)), expected)]
        ELSE [raised |-> TRUE, trans |-> "absent", mididir |-> cleaned,
              result |-> AnalysisResult(c, NoMetrics, NoMidi)]

\* a faulty variant: the silence test is gone, a silent recording is transcribed
\* like any other
analyze_audio_no_short_circuit(file, f, mididir, outcome) ==
    LET c == file.content
        expected == MidiNameOf(f)
        cleaned == WithoutOld(mididir, expected)
    IN  IF ~Decodable(c)
        THEN [raised |-> TRUE, trans |-> "none", mididir |-> mididir,
              result |-> AnalysisResult(c, NoMetrics, NoMidi)]
        ELSE IF outcome = "ok"
        THEN LET mid == MidiOf(TranscriptOf(c)) IN
             [raised |-> FALSE, trans |-> "ok",
              mididir |-> Put(cleaned, expected, Artifact(c, mid)),
              result |-> AnalysisResult(c,
                             calculate_metrics_from_midi(mid, DurationOf(c)), expected)]
        ELSE IF outcome = "unreadable"
        THEN [raised |-> FALSE, trans |-> "unreadable",
              mididir |-> Put(cleaned, expected, Artifact(c, CorruptMidi)),
              result |-> AnalysisResult(c, NoMetrics, expected)]
        ELSE [raised |-> FALSE, trans |-> "absent", mididir |-> cleaned,
              result |-> AnalysisResult(c, NoMetrics, NoMidi)]

\* analyze_audio(file_path, output_midi_dir) on an existing file named f:
\* whether it raises, what became of the transcription ("none": not reached,
\* "skipped": the silence short-circuit, else by the outcome), the MIDI
\* folder it leaves and the dict it returns.
analyze_audio(file, f, mididir, outcome) ==
    LET c == file.content
        expected == MidiNameOf(f)
        cleaned == WithoutOld(mididir, expected)
    IN  IF ~Decodable(c)
        THEN \* line 47 raises
             [raised |-> TRUE, trans |-> "none", mididir |-> mididir,
              result |-> AnalysisResult(c, NoMetrics, NoMidi)]
        ELSE IF RmsAllZero(c)
        THEN \* lines 56-65
             [raised |-> FALSE, trans |-> "skipped", mididir |-> mididir,
              result |-> AnalysisResult(c, NoMetrics, NoMidi)]
        ELSE IF outcome = "ok"
        THEN LET mid == MidiOf(TranscriptOf(c)) IN
             [raised |-> FALSE, trans |-> "ok",
              mididir |-> Put(cleaned, expected, Artifact(c, mid)),
              result |-> AnalysisResult(c,
                             calculate_metrics_from_midi(mid, DurationOf(c)), expected)]
        ELSE IF outcome = "unreadable"
        THEN \* the artifact is there, calculate_metrics_from_midi returns None
             [raised |-> FALSE, trans |-> "unreadable",
              mididir |-> Put(cleaned, expected, Artifact(c, CorruptMidi)),
              result |-> AnalysisResult(c, NoMetrics, expected)]
        ELSE \* predict_and_save raised (lines 112-114) or left no file (line 100)
             [raised |-> FALSE, trans |-> "absent", mididir |-> cleaned,
              result |-> AnalysisResult(c, NoMetrics, NoMidi)]

(***************************************************************************)
(* app.py: the start time of a session (process_uploads, lines 106-132)    *)
(*                                                                         *)
(* Here a datetime has a calendar date and an hour of the day, and         *)
(* timestamps and durations are counted in hours.                          *)
(***************************************************************************)

DateTime(y, m, d, h) == [year |-> y, month |-> m, day |-> d, hour |-> h]

\* datetime.date()
DateOf(dt) == <<dt.year, dt.month, dt.day>>

IsLeap(y) == (y % 4 = 0 /\ y % 100 # 0) \/ y % 400 = 0

DaysIn(y, m) ==
    IF m = 2 THEN (IF IsLeap(y) THEN 29 ELSE 28)
    ELSE IF m \in {4, 6, 9, 11} THEN 30 ELSE 31

NextDay(dt) ==
    IF dt.day < DaysIn(dt.year, dt.month) THEN [dt EXCEPT !.day = @ + 1]
    ELSE IF dt.month < 12 THEN [dt EXCEPT !.month = @ + 1, !.day = 1]
    ELSE [dt EXCEPT !.year = @ + 1, !.month = 1, !.day = 1]

PrevDay(dt) ==
    IF dt.day > 1 THEN [dt EXCEPT !.day = @ - 1]
    ELSE IF dt.month > 1
         THEN [dt EXCEPT !.month = @ - 1, !.day = DaysIn(dt.year, dt.month - 1)]
         ELSE [dt EXCEPT !.year = @ - 1, !.month = 12, !.day = 31]

\* datetime + timedelta
RECURSIVE PlusHours(_, _)
PlusHours(dt, n) ==
    IF n >= 24 THEN PlusHours(NextDay(dt), n - 24)
    ELSE IF dt.hour + n < 24 THEN [dt EXCEPT !.hour = @ + n]
    ELSE [NextDay(dt) EXCEPT !.hour = dt.hour + n - 24]

\* datetime - timedelta (line 112)
RECURSIVE MinusHours(_, _)
MinusHours(dt, n) ==
    IF n >= 24 THEN MinusHours(PrevDay(dt), n - 24)
    ELSE IF dt.hour >= n THEN [dt EXCEPT !.hour = @ - n]
    ELSE [PrevDay(dt) EXCEPT !.hour = dt.hour + 24 - n]

\* Timestamp 0 in local time: os.path.getmtime counts the hours from here.
Epoch == DateTime(2026, 2, 6, 0)

\* datetime.fromtimestamp(mtime)
fromtimestamp(mtime) == PlusHours(Epoch, mtime)

\* os.path.getmtime raises OSError: the file is gone.
NoMtime == -1

\* A file name is the sequence of its characters.
Digit(c) == c \in {"0", "1", "2", "3", "4", "5", "6", "7", "8", "9"}

DigitVal(c) ==
    CASE c = "0" -> 0 [] c = "1" -> 1 [] c = "2" -> 2 [] c = "3" -> 3
      [] c = "4" -> 4 [] c = "5" -> 5 [] c = "6" -> 6 [] c = "7" -> 7
      [] c = "8" -> 8 [] c = "9" -> 9

\* str.isdigit()
isdigit(s) == s # <<>> /\ \A i \in 1..Len(s) : Digit(s[i])

\* datetime.strptime(s, '%y%m%d') on six digits: %y below 69 is 20yy, else
\* 19yy; ok is FALSE where it raises ValueError (no such month or day).
strptime(s) ==
    LET yy == 10 * DigitVal(s[1]) + DigitVal(s[2])
        mm == 10 * DigitVal(s[3]) + DigitVal(s[4])
        dd == 10 * DigitVal(s[5]) + DigitVal(s[6])
        year == IF yy >= 69 THEN 1900 + yy ELSE 2000 + yy
    IN  [ok |-> mm \in 1..12 /\ dd >= 1 /\ dd <= DaysIn(year, mm),
         year |-> year, month |-> mm, day |-> dd]

\* a faulty variant: the date of the name replaces the whole value, the time of
\* day is lost
start_time_at_midnight(f, mtime, total_duration, now) ==
    IF mtime = NoMtime THEN now
    ELSE
    LET dt_end == fromtimestamp(mtime)
        dt_start == MinusHours(dt_end, total_duration)
    IN  IF Len(f) >= 6 /\ isdigit(SubSeq(f, 1, 6))
        THEN LET date_from_name == strptime(SubSeq(f, 1, 6))
             IN  IF date_from_name.ok
                    /\ <<date_from_name.year, date_from_name.month,
                         date_from_name.day>> # DateOf(dt_start)
                 THEN DateTime(date_from_name.year, date_from_name.month,
                               date_from_name.day, 0)
                 ELSE dt_start
        ELSE dt_start

\* dt_start of lines 108-132 for the file name f; now is datetime.now() at
\* line 132.
start_time(f, mtime, total_duration, now) ==
    IF mtime = NoMtime THEN now
    ELSE
    LET dt_end == fromtimestamp(mtime)
        dt_start == MinusHours(dt_end, total_duration)
    IN  IF Len(f) >= 6 /\ isdigit(SubSeq(f, 1, 6))
        THEN LET date_from_name == strptime(SubSeq(f, 1, 6))
             IN  IF date_from_name.ok
                    /\ <<date_from_name.year, date_from_name.month,
                         date_from_name.day>> # DateOf(dt_start)
                 THEN [dt_start EXCEPT !.year = date_from_name.year,
                                       !.month = date_from_name.month,
                                       !.day = date_from_name.day]
                 ELSE dt_start
        ELSE dt_start

(***************************************************************************)
(* app.py: the state                                                       *)
(***************************************************************************)

\* Files dropped into the inbox and admin requests received over a run.
MaxInputs == 2

VARIABLES
    inbox,       \* uploads/: name -> file
    archive,     \* archive/: name -> file
    mididir,     \* static/midi/: artifact name -> artifact
    db,          \* the rows of table sessions, a bag
    inputs,      \* files dropped and admin requests received so far
    wpc,         \* process_uploads: where the worker thread is
    wfiles,      \* what is left of "files", the file at work first
    winit_size,  \* init_size
    whash,       \* file_hash
    wresult,     \* result
    wtrans,      \* what became of the transcription of the file at work
    apc,         \* the admin request being served
    areq,        \* s, the row the request loaded
    aresp,       \* the responses the admin routes have sent
    m_mid, m_duration, m_done, m_result,  \* a call of the metrics engine
    volume,      \* <drive>:\MUSIC of the external drive: name -> file
    ledger,      \* instance/sync_history.json: name -> what was seen of it
    spc,         \* scan_external_drives: where the scanner thread is
    sfiles,      \* what is left of the listing of the drive
    shist,       \* history
    shas,        \* has_updates
    copied,      \* name -> how many times line 263 has copied it (history)
    t_in, t_out  \* a derivation of a start time: what it reads, dt_start

wvars == <<wpc, wfiles, winit_size, whash, wresult, wtrans>>
avars == <<apc, areq, aresp>>
mvars == <<m_mid, m_duration, m_done, m_result>>
svars == <<volume, ledger, spc, sfiles, shist, shas, copied>>
tvars == <<t_in, t_out>>
fsvars == <<inbox, archive, mididir>>
vars == <<inbox, archive, mididir, db, inputs, wvars, avars, mvars, svars, tvars>>

\* No derivation asked for, none made.
NoStartInput == [f |-> <<>>, mtime |-> NoMtime, total_duration |-> 0,
                 now |-> Epoch]
NoStart == [done |-> FALSE, dt_start |-> Epoch]

NoResult == AnalysisResult("", NoMetrics, NoMidi)

\* history[file_key] = {'size': ..., 'mtime': ...}; the files of the drive
\* are not modified, the size stands for both.
Seen(file) == [size |-> getsize(file)]
EmptyLedger == [n \in {} |-> Seen(EmptyFile)]

\* class Session(db.Model): one row of the table
SessionRow(file_hash, f, result) ==
    [hash |-> file_hash,
     filename |-> f,
     total_duration |-> result.total_duration,
     active_duration |-> result.active_duration,
     keystrokes |-> result.keystrokes,
     efficiency |-> result.efficiency,
     waveform_json |-> result.waveform,
     intervals_json |-> result.intervals,
     midi_url |-> result.midi_filename]

NoRow == SessionRow("", <<>>, NoResult)

\* The table is a bag of rows: row -> how many times it is stored.
EmptyTable == [r \in {} |-> 0]
Insert(table, r) ==
    [x \in DOMAIN table \cup {r} |->
        (IF x \in DOMAIN table THEN table[x] ELSE 0) + (IF x = r THEN 1 ELSE 0)]
Delete(table, r) ==
    [x \in {y \in DOMAIN table : y # r \/ table[y] > 1} |->
        IF x = r THEN table[x] - 1 ELSE table[x]]

\* How many rows carry the hash h.
RowsWith(table, h) ==
    LET rows == {r \in DOMAIN table : r.hash = h}
        RECURSIVE Sum(_)
        Sum(S) == IF S = {} THEN 0
                  ELSE LET r == CHOOSE x \in S : TRUE IN table[r] + Sum(S \ {r})
    IN  Sum(rows)

\* a faulty variant: the lookup by primary key never finds a row
NeverFound(table, h) == FALSE

\* db.session.get(Session, h) finds a row; hash is the primary key, so the
\* same test decides whether an INSERT of that key is refused.
HasSession(table, h) == \E r \in DOMAIN table : r.hash = h

GetSession(table, h) == CHOOSE r \in DOMAIN table : r.hash = h

Init ==
    /\ inbox = EmptyDir
    /\ archive = EmptyDir
    /\ mididir = EmptyMidiDir
    /\ db = EmptyTable
    /\ inputs = 0
    /\ wpc = "scan"
    /\ wfiles = <<>>
    /\ winit_size = 0
    /\ whash = ""
    /\ wresult = NoResult
    /\ wtrans = "none"
    /\ apc = "idle"
    /\ areq = NoRow
    /\ aresp = <<>>
    /\ m_mid = CorruptMidi
    /\ m_duration = 0
    /\ m_done = FALSE
    /\ m_result = NoMetrics
    /\ volume = EmptyDir
    /\ ledger = EmptyLedger
    /\ spc = "detect"
    /\ sfiles = <<>>
    /\ shist = EmptyLedger
    /\ shas = FALSE
    /\ copied = [n \in {} |-> 0]
    /\ t_in = NoStartInput
    /\ t_out = NoStart

(***************************************************************************)
(* The inbox: recordings are copied into it                                *)
(***************************************************************************)

\* A copy into the inbox creates the file ...
Arrive(f) ==
    /\ inputs < MaxInputs
    /\ ~Exists(inbox, f)
    /\ inbox' = Put(inbox, f, EmptyFile)
    /\ inputs' = inputs + 1
    /\ UNCHANGED <<archive, mididir, db, wvars, avars, mvars, svars, tvars>>

\* ... and then writes the recording into it.
Write(f, c) ==
    /\ Exists(inbox, f)
    /\ inbox[f].size = 0
    /\ inbox' = Put(inbox, f, FileOf(c, 1))
    /\ UNCHANGED <<archive, mididir, db, inputs, wvars, avars, mvars, svars, tvars>>

(***************************************************************************)
(* app.py: process_uploads                                                 *)
(***************************************************************************)

\* The orders in which os.listdir may give the names of a directory.
Listings(dir) ==
    {s \in [1..Cardinality(DOMAIN dir) -> DOMAIN dir] :
        \A i, j \in DOMAIN s : i # j => s[i] # s[j]}

Range(s) == {s[i] : i \in DOMAIN s}

\* "continue", or the end of the loop body: the next file of the listing,
\* or time.sleep(5) and the next scan.
Continue ==
    /\ wfiles' = Tail(wfiles)
    /\ wpc' = IF Tail(wfiles) = <<>> THEN "scan" ELSE "size1"
    /\ winit_size' = 0
    /\ whash' = ""
    /\ wresult' = NoResult
    /\ wtrans' = "none"

\* An exception leaves the for loop for the handler of line 176.
Raise ==
    /\ wpc' = "except"
    /\ UNCHANGED <<wfiles, winit_size, whash, wresult, wtrans>>

\* a faulty variant: nothing catches the exception and the thread ends
WorkerDies ==
    /\ wpc = "except"
    /\ wpc' = "dead"
    /\ UNCHANGED <<wfiles, winit_size, whash, wresult, wtrans>>
    /\ UNCHANGED <<fsvars, db, inputs, avars, mvars, svars, tvars>>

\* lines 176-179: print the error, sleep, scan again
WorkerCatch ==
    /\ wpc = "except"
    /\ wpc' = "scan"
    /\ wfiles' = <<>>
    /\ winit_size' = 0
    /\ whash' = ""
    /\ wresult' = NoResult
    /\ wtrans' = "none"
    /\ UNCHANGED <<fsvars, db, inputs, avars, mvars, svars, tvars>>

\* line 63: files = [f for f in os.listdir(UPLOAD_FOLDER) ...]
Scan ==
    /\ wpc = "scan"
    /\ DOMAIN inbox # {}
    /\ \E listing \in Listings(inbox) : wfiles' = listing
    /\ wpc' = "size1"
    /\ UNCHANGED <<winit_size, whash, wresult, wtrans>>
    /\ UNCHANGED <<fsvars, db, inputs, avars, mvars, svars, tvars>>

\* line 74: init_size = os.path.getsize(file_path)
Size1 ==
    /\ wpc = "size1"
    /\ IF Exists(inbox, Head(wfiles))
       THEN /\ winit_size' = getsize(inbox[Head(wfiles)])
            /\ wpc' = "size2"
            /\ UNCHANGED <<wfiles, whash, wresult, wtrans>>
       ELSE Continue
    /\ UNCHANGED <<fsvars, db, inputs, avars, mvars, svars, tvars>>

\* a faulty variant: the gate lets every file that exists through
AnyFileIsStable(dir, f, init_size) == Exists(dir, f)

\* lines 76-83: the second sample equals the first and is not zero
Stable(dir, f, init_size) ==
    /\ Exists(dir, f)
    /\ getsize(dir[f]) = init_size
    /\ getsize(dir[f]) # 0

\* lines 75-86: the second sample after the sleep, and the two tests
Size2 ==
    /\ wpc = "size2"
    /\ IF Stable(inbox, Head(wfiles), winit_size)
       THEN /\ wpc' = "hash"
            /\ UNCHANGED <<wfiles, winit_size, whash, wresult, wtrans>>
       ELSE Continue
    /\ UNCHANGED <<fsvars, db, inputs, avars, mvars, svars, tvars>>

\* a faulty variant: the duplicate is filed in the archive like a new recording
ArchiveDuplicate(f) ==
    /\ archive' = Put(archive, f, inbox[f])
    /\ inbox' = Remove(inbox, f)

\* lines 95-97: os.remove(file_path); continue
DiscardDuplicate(f) ==
    /\ inbox' = Remove(inbox, f)
    /\ UNCHANGED archive

\* lines 88-97: hash the file, look the hash up, drop a duplicate.
\* io_error: reading the file or querying the store raises.
HashCheck ==
    /\ wpc = "hash"
    /\ \E io_error \in BOOLEAN :
        IF io_error \/ ~Exists(inbox, Head(wfiles))
        THEN Raise /\ UNCHANGED <<inbox, archive>>
        ELSE LET file_hash == get_file_hash(inbox[Head(wfiles)]) IN
             IF HasSession(db, file_hash)
             THEN /\ DiscardDuplicate(Head(wfiles))
                  /\ Continue
             ELSE /\ whash' = file_hash
                  /\ wpc' = "analyze"
                  /\ UNCHANGED <<inbox, archive, wfiles, winit_size, wresult, wtrans>>
    /\ UNCHANGED <<mididir, db, inputs, avars, mvars, svars, tvars>>

\* lines 99-105 and 173-174: result = analyze_audio(file_path, MIDI_FOLDER)
Analyze ==
    /\ wpc = "analyze"
    /\ IF ~Exists(inbox, Head(wfiles))
       THEN \* analyze_audio returns None: "Analysis failed"
            Continue /\ UNCHANGED mididir
       ELSE \E outcome \in Outcomes :
            LET a == analyze_audio(inbox[Head(wfiles)], Head(wfiles), mididir, outcome)
            IN  /\ mididir' = a.mididir
                /\ IF a.raised
                   THEN Raise
                   ELSE /\ wresult' = a.result
                        /\ wtrans' = a.trans
                        /\ wpc' = "commit"
                        /\ UNCHANGED <<wfiles, winit_size, whash>>
    /\ UNCHANGED <<inbox, archive, db, inputs, avars, mvars, svars, tvars>>

\* lines 134-150: db.session.add(new_session); db.session.commit().
\* db_error: the commit raises (the store is locked, the disk is full).
Commit ==
    /\ wpc = "commit"
    /\ \E db_error \in BOOLEAN :
        IF db_error \/ HasSession(db, whash)
        THEN Raise /\ UNCHANGED db
        ELSE /\ db' = Insert(db, SessionRow(whash, Head(wfiles), wresult))
             /\ wpc' = "archive"
             /\ UNCHANGED <<wfiles, winit_size, whash, wresult, wtrans>>
    /\ UNCHANGED <<fsvars, inputs, avars, mvars, svars, tvars>>

\* a faulty variant: a failed move is not caught at line 171 and reaches the
\* handler of the loop
ArchiveFailureEscapes ==
    /\ wpc = "archive"
    /\ IF ~Exists(inbox, Head(wfiles))
       THEN UNCHANGED <<inbox, archive>> /\ Continue
       ELSE LET f == Head(wfiles)
                dest_path == IF Exists(archive, f) THEN Disambiguated(f, whash) ELSE f
            IN  \E rename_error \in BOOLEAN :
                  IF rename_error
                  THEN UNCHANGED <<inbox, archive>> /\ Raise
                  ELSE /\ archive' = Put(archive, dest_path, inbox[f])
                       /\ inbox' = Remove(inbox, f)
                       /\ Continue
    /\ UNCHANGED <<mididir, db, inputs, avars, mvars, svars, tvars>>

\* lines 152-172: move the file to archive/. os.rename replaces an existing
\* destination where the platform lets it and raises where it does not;
\* rename_error is any failure of the move, which line 171 catches.
Archive ==
    /\ wpc = "archive"
    /\ IF ~Exists(inbox, Head(wfiles))
       THEN UNCHANGED <<inbox, archive>>
       ELSE LET f == Head(wfiles)
                dest_path == IF Exists(archive, f) THEN Disambiguated(f, whash) ELSE f
            IN  \E rename_error \in BOOLEAN :
                  IF rename_error
                  THEN UNCHANGED <<inbox, archive>>
                  ELSE /\ archive' = Put(archive, dest_path, inbox[f])
                       /\ inbox' = Remove(inbox, f)
    /\ Continue
    /\ UNCHANGED <<mididir, db, inputs, avars, mvars, svars, tvars>>

Worker ==
    \/ Scan \/ Size1 \/ Size2 \/ HashCheck \/ Analyze \/ Commit \/ Archive
    \/ WorkerCatch

(***************************************************************************)
(* app.py: the admin routes                                                *)
(***************************************************************************)

\* The fingerprints a request may name.
Hashes == {get_file_hash(FileOf(c, 1)) : c \in Contents}

\* "Delete MIDI" (lines 492-496 and 520-524)
WithoutMidiOf(dir, s) ==
    IF s.midi_url # NoMidi /\ Exists(dir, s.midi_url)
    THEN Remove(dir, s.midi_url)
    ELSE dir

\* The handler answers: the route, the hash_id it was called with and the
\* status code are added to the responses sent.
Respond(route, hash_id, code) ==
    aresp' = Append(aresp, [route |-> route, hash |-> hash_id, code |-> code])

\* DELETE /api/admin/session/<hash_id> (lines 484-500)
admin_delete_session(hash_id) ==
    /\ apc = "idle"
    /\ inputs < MaxInputs
    /\ inputs' = inputs + 1
    /\ IF ~HasSession(db, hash_id)
       THEN /\ Respond("delete", hash_id, 404)
            /\ UNCHANGED <<mididir, db>>
       ELSE LET s == GetSession(db, hash_id) IN
            /\ mididir' = WithoutMidiOf(mididir, s)
            /\ db' = Delete(db, s)
            /\ Respond("delete", hash_id, 200)
    /\ UNCHANGED <<inbox, archive, wvars, apc, areq, mvars, svars, tvars>>

\* a faulty variant: the request removes the session and its artifact first and
\* looks for the archived file afterwards
admin_reprocess_deletes_first(hash_id) ==
    /\ apc = "idle"
    /\ inputs < MaxInputs
    /\ inputs' = inputs + 1
    /\ IF ~HasSession(db, hash_id)
       THEN /\ Respond("reprocess", hash_id, 404)
            /\ UNCHANGED <<inbox, mididir, db>>
       ELSE LET s == GetSession(db, hash_id) IN
            /\ mididir' = WithoutMidiOf(mididir, s)
            /\ db' = Delete(db, s)
            /\ IF ~Exists(archive, s.filename)
               THEN Respond("reprocess", hash_id, 400) /\ UNCHANGED inbox
               ELSE /\ inbox' = Put(inbox, s.filename, archive[s.filename])
                    /\ Respond("reprocess", hash_id, 200)
    /\ UNCHANGED <<archive, wvars, apc, areq, mvars, svars, tvars>>

\* POST /api/admin/session/<hash_id>/reprocess, lines 502-517: the two
\* checks and shutil.copy2. copy_error: the copy raises, and line 532
\* answers 500.
admin_reprocess_copy(hash_id) ==
    /\ apc = "idle"
    /\ inputs < MaxInputs
    /\ inputs' = inputs + 1
    /\ IF ~HasSession(db, hash_id)
       THEN /\ Respond("reprocess", hash_id, 404)
            /\ UNCHANGED <<inbox, apc, areq>>
       ELSE LET s == GetSession(db, hash_id) IN
            IF ~Exists(archive, s.filename)
            THEN /\ Respond("reprocess", hash_id, 400)
                 /\ UNCHANGED <<inbox, apc, areq>>
            ELSE \E copy_error \in BOOLEAN :
                 IF copy_error
                 THEN /\ Respond("reprocess", hash_id, 500)
                      /\ UNCHANGED <<inbox, apc, areq>>
                 ELSE /\ inbox' = Put(inbox, s.filename, archive[s.filename])
                      /\ apc' = "reprocess"
                      /\ areq' = s
                      /\ UNCHANGED aresp
    /\ UNCHANGED <<archive, mididir, db, wvars, mvars, svars, tvars>>

\* the rest of the request: lines 519-529
admin_reprocess_delete ==
    /\ apc = "reprocess"
    /\ mididir' = WithoutMidiOf(mididir, areq)
    /\ db' = Delete(db, areq)
    /\ apc' = "idle"
    /\ areq' = NoRow
    /\ Respond("reprocess", areq.hash, 200)
    /\ UNCHANGED <<inbox, archive, inputs, wvars, mvars, svars, tvars>>

\* a faulty variant: the recompute also takes the length of the session from
\* what it has just computed
RecalculatedWithDuration(s, metrics) ==
    [s EXCEPT !.active_duration = metrics.active_duration,
              !.efficiency = metrics.efficiency,
              !.keystrokes = metrics.keystrokes,
              !.intervals_json = metrics.intervals,
              !.total_duration = metrics.active_duration]

\* a faulty variant: the recompute adds the keystrokes it counts to the ones
\* the row holds
RecalculatedAccumulating(s, metrics) ==
    [s EXCEPT !.active_duration = metrics.active_duration,
              !.efficiency = metrics.efficiency,
              !.keystrokes = s.keystrokes + metrics.keystrokes,
              !.intervals_json = metrics.intervals]

\* What lines 551-557 write into the row s.
Recalculated(s, metrics) ==
    [s EXCEPT !.active_duration = metrics.active_duration,
              !.efficiency = metrics.efficiency,
              !.keystrokes = metrics.keystrokes,
              !.intervals_json = metrics.intervals]

\* POST /api/admin/session/<hash_id>/recalc_stats (lines 534-562)
admin_recalc_stats(hash_id) ==
    /\ apc = "idle"
    /\ inputs < MaxInputs
    /\ inputs' = inputs + 1
    /\ IF ~HasSession(db, hash_id)
       THEN Respond("recalc_stats", hash_id, 404) /\ UNCHANGED db
       ELSE LET s == GetSession(db, hash_id) IN
            IF s.midi_url = NoMidi
            THEN Respond("recalc_stats", hash_id, 404) /\ UNCHANGED db
            ELSE IF ~Exists(mididir, s.midi_url)
            THEN Respond("recalc_stats", hash_id, 404) /\ UNCHANGED db
            ELSE IF s.total_duration = 0
            THEN Respond("recalc_stats", hash_id, 400) /\ UNCHANGED db
            ELSE LET metrics == calculate_metrics_from_midi(
                                    mididir[s.midi_url].mid, s.total_duration)
                 IN  IF metrics.ok
                     THEN /\ db' = Insert(Delete(db, s), Recalculated(s, metrics))
                          /\ Respond("recalc_stats", hash_id, 200)
                     ELSE Respond("recalc_stats", hash_id, 500) /\ UNCHANGED db
    /\ UNCHANGED <<fsvars, wvars, apc, areq, mvars, svars, tvars>>

Admin ==
    \/ \E h \in Hashes : admin_delete_session(h)
    \/ \E h \in Hashes : admin_reprocess_copy(h)
    \/ admin_reprocess_delete
    \/ \E h \in Hashes : admin_recalc_stats(h)

Environment ==
    \/ \E f \in Names : Arrive(f)
    \/ \E f \in Names, c \in Contents : Write(f, c)

Next == Environment \/ Worker \/ Admin

Spec == Init /\ [][Next]_vars

\* The worker is a daemon thread that runs as long as the process does: a
\* handler that has caught an exception returns from its sleep (line 179),
\* and the loop then takes its next listing (line 63).
FairSpec == Spec /\ WF_vars(WorkerCatch) /\ WF_vars(Scan)

(***************************************************************************)
(* The program started on what an earlier run has left                     *)
(***************************************************************************)

\* What the folders and the store hold.
Fresh == [archive |-> EmptyDir, mididir |-> EmptyMidiDir, db |-> EmptyTable]

\* One whole pass of the worker over a new recording c dropped as f, with
\* no failure but the transcription's: hash, analysis, commit, move.
Ingested(st, f, c, outcome) ==
    LET file == FileOf(c, 1)
        file_hash == get_file_hash(file)
        a == analyze_audio(file, f, st.mididir, outcome)
        dest_path == IF Exists(st.archive, f) THEN Disambiguated(f, file_hash) ELSE f
    IN  [archive |-> Put(st.archive, dest_path, file),
         mididir |-> a.mididir,
         db |-> Insert(st.db, SessionRow(file_hash, f, a.result))]

\* Nothing yet; one recording; a second recording of the same name whose
\* transcription left no artifact, which took the artifact of the first
\* away; a second recording of the same name whose artifact replaced the
\* one of the first.
EarlierRuns ==
    LET one == Ingested(Fresh, <<"a">>, "etude", "ok")
    IN  {Fresh, one,
         Ingested(one, <<"a">>, "scales", "missing"),
         Ingested(one, <<"a">>, "scales", "ok")}

RestartInit ==
    /\ \E st \in EarlierRuns :
        /\ archive = st.archive
        /\ mididir = st.mididir
        /\ db = st.db
    /\ inbox = EmptyDir
    /\ Init!5 /\ Init!6 /\ Init!7 /\ Init!8 /\ Init!9 /\ Init!10 /\ Init!11
    /\ Init!12 /\ Init!13 /\ Init!14 /\ Init!15 /\ Init!16 /\ Init!17 /\ Init!18
    /\ Init!19 /\ Init!20 /\ Init!21 /\ Init!22 /\ Init!23 /\ Init!24 /\ Init!25
    /\ Init!26 /\ Init!27

SpecRestart == RestartInit /\ [][Next]_vars

(***************************************************************************)
(* app.py: scan_external_drives                                            *)
(***************************************************************************)

\* "continue" and the end of the body of the loop of line 223: the next
\* file of the drive, or, after the last, the save of line 275.
SyncContinue ==
    /\ sfiles' = Tail(sfiles)
    /\ spc' = IF Tail(sfiles) = <<>> THEN "save" ELSE "file"

\* lines 206-223: a drive with a MUSIC folder is there; load_history() and
\* the listing of the folder. Without a drive the thread only sleeps.
SyncDetect ==
    /\ spc = "detect"
    /\ volume # EmptyDir
    /\ shist' = ledger
    /\ shas' = FALSE
    /\ \E files \in Listings(volume) : sfiles' = files
    /\ spc' = "file"
    /\ UNCHANGED <<volume, ledger, copied>>
    /\ UNCHANGED <<fsvars, db, inputs, wvars, avars, mvars, tvars>>

\* lines 242-259: the file is not in the archive under its name with its
\* size, and no file of its name is in the inbox
ToCopy(f) ==
    /\ ~(Exists(archive, f) /\ getsize(archive[f]) = getsize(volume[f]))
    /\ ~Exists(inbox, f)

\* lines 227-263, one file of the drive: the history check, the archive
\* check, the inbox check, and the start of shutil.copy2, which creates the
\* destination.
SyncFile ==
    /\ spc = "file"
    /\ LET f == Head(sfiles) IN
       IF Exists(shist, f) /\ shist[f] = Seen(volume[f])
       THEN \* line 240
            SyncContinue /\ UNCHANGED <<inbox, shist, shas>>
       ELSE IF Exists(archive, f) /\ getsize(archive[f]) = getsize(volume[f])
       THEN \* lines 250-254
            /\ shist' = Put(shist, f, Seen(volume[f]))
            /\ shas' = TRUE
            /\ SyncContinue
            /\ UNCHANGED inbox
       ELSE IF ~ToCopy(f)
       THEN \* line 259
            SyncContinue /\ UNCHANGED <<inbox, shist, shas>>
       ELSE /\ inbox' = Put(inbox, f, EmptyFile)
            /\ spc' = "copy"
            /\ UNCHANGED <<sfiles, shist, shas>>
    /\ UNCHANGED <<volume, ledger, copied>>
    /\ UNCHANGED <<archive, mididir, db, inputs, wvars, avars, mvars, tvars>>

\* lines 263-267: the copy is written, the history updated
SyncCopy ==
    /\ spc = "copy"
    /\ LET f == Head(sfiles) IN
        /\ inbox' = Put(inbox, f, volume[f])
        /\ shist' = Put(shist, f, Seen(volume[f]))
    /\ shas' = TRUE
    /\ copied' = [n \in DOMAIN copied \cup {Head(sfiles)} |->
                    (IF n \in DOMAIN copied THEN copied[n] ELSE 0)
                    + (IF n = Head(sfiles) THEN 1 ELSE 0)]
    /\ SyncContinue
    /\ UNCHANGED <<volume, ledger>>
    /\ UNCHANGED <<archive, mididir, db, inputs, wvars, avars, mvars, tvars>>

\* lines 275-281: save_history(history) if there were updates, then sleep
SyncSave ==
    /\ spc = "save"
    /\ ledger' = IF shas THEN shist ELSE ledger
    /\ spc' = "detect"
    /\ shist' = EmptyLedger
    /\ shas' = FALSE
    /\ UNCHANGED <<volume, sfiles, copied>>
    /\ UNCHANGED <<fsvars, db, inputs, wvars, avars, mvars, tvars>>

Scanner == SyncDetect \/ SyncFile \/ SyncCopy \/ SyncSave

\* instance/sync_history.json is lost: removed, or no longer readable
\* (lines 189-195 then give an empty history).
LoseLedger ==
    /\ inputs < MaxInputs
    /\ inputs' = inputs + 1
    /\ ledger # EmptyLedger
    /\ ledger' = EmptyLedger
    /\ UNCHANGED <<volume, spc, sfiles, shist, shas, copied>>
    /\ UNCHANGED <<fsvars, db, wvars, avars, mvars, tvars>>

\* The drive that is plugged in holds one recording.
Volumes == {[n \in {<<"a">>} |-> FileOf("etude", 1)]}

\* Earlier runs have left nothing, or a recording of the same name as the
\* one on the drive: another one, or the same.
SyncInit ==
    /\ \E st \in {Fresh, Ingested(Fresh, <<"a">>, "scales", "ok"),
                   Ingested(Fresh, <<"a">>, "etude", "ok")} :
        /\ archive = st.archive
        /\ mididir = st.mididir
        /\ db = st.db
    /\ inbox = EmptyDir
    /\ Init!5 /\ Init!6 /\ Init!7 /\ Init!8 /\ Init!9 /\ Init!10 /\ Init!11
    /\ Init!12 /\ Init!13 /\ Init!14 /\ Init!15 /\ Init!16 /\ Init!17 /\ Init!18
    /\ volume \in Volumes
    /\ Init!20 /\ Init!21 /\ Init!22 /\ Init!23 /\ Init!24 /\ Init!25
    /\ Init!26 /\ Init!27

\* The recordings come from the drive; of the admin routes, the one that
\* removes sessions stays in use.
SyncNext ==
    \/ Scanner
    \/ LoseLedger
    \/ Worker
    \/ \E h \in Hashes : admin_delete_session(h)

SpecSync == SyncInit /\ [][SyncNext]_vars

(***************************************************************************)
(* The worker alone on an inbox of two whole files                         *)
(***************************************************************************)

\* uploads/ holds a.wav and b.wav, each a whole recording of any kind.
TwoFiles ==
    {[n \in Names |-> FileOf(IF n = <<"a">> THEN ca ELSE cb, 1)] :
        ca \in Contents, cb \in Contents}

LoopInit2 ==
    /\ inbox \in TwoFiles
    /\ Init!2 /\ Init!3 /\ Init!4 /\ Init!5 /\ Init!6 /\ Init!7 /\ Init!8
    /\ Init!9 /\ Init!10 /\ Init!11 /\ Init!12 /\ Init!13 /\ Init!14
    /\ Init!15 /\ Init!16 /\ Init!17 /\ Init!18 /\ Init!19 /\ Init!20
    /\ Init!21 /\ Init!22 /\ Init!23 /\ Init!24 /\ Init!25 /\ Init!26
    /\ Init!27

\* The thread of process_uploads keeps running: every step of the loop is
\* taken when it stays possible (the calls return, time.sleep returns). For
\* the analysis this is said of the place of the thread: it does not stay
\* in analyze_audio forever.
FairLoop ==
    /\ LoopInit2 /\ [][Worker]_vars
    /\ WF_vars(Scan) /\ WF_vars(Size1) /\ WF_vars(Size2) /\ WF_vars(HashCheck)
    /\ WF_vars(Commit) /\ WF_vars(Archive) /\ WF_vars(WorkerCatch)
    /\ []<>(wpc # "analyze")

(***************************************************************************)
(* The metrics engine on its own: one call on a note-event stream          *)
(***************************************************************************)

\* The longest stream handed to the engine.
MaxEvents == 4

\* msg.time of the attacks of the first key, in ticks
Deltas == {0, 1, 5}

\* Two keys. The first is struck at once, soon or late, released at once, soon
\* or late, struck below the threshold and released by a note_on of velocity
\* 0; the second is struck and released while the first may still sound.
Messages ==
    {Msg("note_on", 60, 80, d) : d \in Deltas}
    \cup {Msg("note_off", 60, 64, d) : d \in Deltas}
    \cup {Msg("note_on", 62, 80, 1), Msg("note_off", 62, 64, 1)}
    \cup {Msg("note_on", 60, 40, 1), Msg("note_on", 60, 0, 1),
          Msg("end_of_track", 0, 0, 1)}

\* total_duration of the session, in ticks: 1 s, 10 s, 20 s
Durations == {2, 20, 40}

\* A stream with the deltas the alphabet has not: key 60 struck at 0.0 s and
\* released at 3.0 s, key 62 struck at 4.5 s and released at 5.0 s.
TwoKeysStream ==
    << Msg("note_on", 60, 80, 0), Msg("note_off", 60, 64, 6),
       Msg("note_on", 62, 80, 3), Msg("note_off", 62, 64, 1) >>

\* Key 60 released at 0.5 s, key 62 struck 2.0 s later: a gap of exactly
\* gap_threshold.
GapEdgeStream ==
    << Msg("note_on", 60, 80, 0), Msg("note_off", 60, 64, 1),
       Msg("note_on", 62, 80, 4), Msg("note_off", 62, 64, 1) >>

RECURSIVE SeqsUpTo(_, _)
SeqsUpTo(S, n) ==
    IF n = 0 THEN {<<>>}
    ELSE LET shorter == SeqsUpTo(S, n - 1)
         IN  shorter \cup {Append(s, x) : s \in {t \in shorter : Len(t) = n - 1}, x \in S}

MInit ==
    /\ Init!1 /\ Init!2 /\ Init!3 /\ Init!4 /\ Init!5 /\ Init!6 /\ Init!7
    /\ Init!8 /\ Init!9 /\ Init!10 /\ Init!11 /\ Init!12 /\ Init!13 /\ Init!14
    /\ Init!19 /\ Init!20 /\ Init!21 /\ Init!22 /\ Init!23 /\ Init!24 /\ Init!25
    /\ Init!26 /\ Init!27
    /\ m_mid \in {MidiOf(e) : e \in SeqsUpTo(Messages, MaxEvents)}
                   \cup {MidiOf(TwoKeysStream), MidiOf(GapEdgeStream), CorruptMidi}
    /\ m_duration = 0
    /\ m_done = FALSE
    /\ m_result = NoMetrics

MCompute ==
    /\ ~m_done
    /\ \E duration_orig \in Durations :
        /\ m_duration' = duration_orig
        /\ m_result' = calculate_metrics_from_midi(m_mid, duration_orig)
    /\ m_done' = TRUE
    /\ UNCHANGED <<m_mid, fsvars, db, inputs, wvars, avars, svars, tvars>>

MNext == MCompute

SpecMetrics == MInit /\ [][MNext]_vars

(***************************************************************************)
(* The start time on its own: one derivation for a name and a timestamp    *)
(***************************************************************************)

\* The last day, counted from the epoch, on which a file was modified.
MaxDays == 24

\* 6 Feb to 2 Mar 2026, at midnight, at one and at 23 o'clock; or no file.
Mtimes == {d * 24 + h : d \in 0..MaxDays, h \in {0, 1, 23}} \cup {NoMtime}

\* total_duration, in hours
HourDurations == {0, 1, 25}

\* 260207_, 260206_, 260301_, 280229_, 990301_, 2602071 (dates);
\* 270229_, 261301_, 260200_ (six digits, no date); 2602_07, 26020, rec_01
StartNames ==
    { <<"2", "6", "0", "2", "0", "7", "_">>, <<"2", "6", "0", "2", "0", "6", "_">>,
      <<"2", "6", "0", "3", "0", "1", "_">>, <<"2", "8", "0", "2", "2", "9", "_">>,
      <<"9", "9", "0", "3", "0", "1", "_">>, <<"2", "6", "0", "2", "0", "7", "1">>,
      <<"2", "7", "0", "2", "2", "9", "_">>, <<"2", "6", "1", "3", "0", "1", "_">>,
      <<"2", "6", "0", "2", "0", "0", "_">>, <<"2", "6", "0", "2", "_", "0", "7">>,
      <<"2", "6", "0", "2", "0">>, <<"r", "e", "c", "_", "0", "1">> }

\* datetime.now() when the fallback of line 132 runs
Nows == {DateTime(2026, 3, 9, 12)}

TInit ==
    /\ Init!1 /\ Init!2 /\ Init!3 /\ Init!4 /\ Init!5 /\ Init!6 /\ Init!7
    /\ Init!8 /\ Init!9 /\ Init!10 /\ Init!11 /\ Init!12 /\ Init!13 /\ Init!14
    /\ Init!15 /\ Init!16 /\ Init!17 /\ Init!18
    /\ Init!19 /\ Init!20 /\ Init!21 /\ Init!22 /\ Init!23 /\ Init!24 /\ Init!25
    /\ t_in \in [f : StartNames, mtime : Mtimes, total_duration : HourDurations,
                 now : Nows]
    /\ t_out = NoStart

TCompute ==
    /\ ~t_out.done
    /\ t_out' = [done |-> TRUE,
                 dt_start |-> start_time(t_in.f, t_in.mtime, t_in.total_duration,
                                         t_in.now)]
    /\ UNCHANGED <<t_in, fsvars, db, inputs, wvars, avars, mvars, svars>>

TNext == TCompute

SpecStart == TInit /\ [][TNext]_vars

(***************************************************************************)
(* Properties of the metrics engine (SpecMetrics)                          *)
(***************************************************************************)

Intervals == m_result.intervals

\* C2: for every event stream and every total_duration > 0 the result has
\* active_duration <= total_duration and 0 <= efficiency <= 1, also when
\* events lie beyond total_duration.
C2_MetricsWithinBounds ==
    (m_done /\ m_result.ok /\ m_duration > 0) =>
        /\ m_result.active_duration <= m_duration
        /\ 0 <= m_result.efficiency.num
        /\ m_result.efficiency.num <= m_result.efficiency.den

\* C3: every returned interval [start, end] has
\* 0 <= start <= end <= total_duration.
C3_IntervalsWithinDuration ==
    m_done =>
        \A i \in 1..Len(Intervals) :
            /\ 0 <= Intervals[i][1]
            /\ Intervals[i][1] <= Intervals[i][2]
            /\ Intervals[i][2] <= m_duration

\* C4: the returned intervals are sorted ascending by start and pairwise
\* non-overlapping: an interval ends no later than any later one starts.
C4_SortedAndDisjoint ==
    m_done =>
        \A i, j \in 1..Len(Intervals) :
            i < j => /\ Intervals[i][1] <= Intervals[j][1]
                     /\ Intervals[i][2] <= Intervals[j][1]

\* Two spans sealed apart, after padding, in a recording that holds them.
C4_Witness ==
    /\ m_done
    /\ Len(Intervals) >= 2
    /\ Intervals[Len(Intervals)][2] < m_duration

\* C5: the keystroke count is at least the number of merged intervals.
C5_KeystrokesCoverIntervals ==
    m_done => m_result.keystrokes >= Len(Intervals)

\* As many spans as keystrokes: every keystroke sealed in a span of its own.
C5_Witness ==
    /\ m_done
    /\ Len(Intervals) >= 2
    /\ m_result.keystrokes = Len(Intervals)

\* C17: for the stream [attack A velocity 80 at 0.0, release A at 3.0,
\* attack B velocity 80 at 4.5, release B at 5.0] and total_duration 10.0
\* (20 ticks) the engine returns the one interval [0.0, 5.5] (0 to 11
\* ticks), keystrokes 2, active_duration 5.5 and efficiency 0.55 = 11/20.
C17_ReferenceScenario ==
    (m_done /\ m_mid = MidiOf(TwoKeysStream) /\ m_duration = 20) =>
        /\ m_result.ok
        /\ Intervals = << <<0, 11>> >>
        /\ m_result.keystrokes = 2
        /\ m_result.active_duration = 11
        /\ m_result.efficiency.num * 20 = 11 * m_result.efficiency.den

\* The engine has answered for the two-key stream in a 10 s recording.
C17_Witness ==
    /\ m_done
    /\ m_mid = MidiOf(TwoKeysStream)
    /\ m_duration = 20
    /\ m_result.ok
    /\ Len(Intervals) = 1

Attack(msg) == msg.type = "note_on" /\ msg.velocity > 0
Qualifying(msg) == Attack(msg) /\ msg.velocity >= 70
Weak(msg) == Attack(msg) /\ msg.velocity < 70
Release(msg) == msg.type = "note_off" \/ (msg.type = "note_on" /\ msg.velocity = 0)

\* The stream with every weak attack replaced by a message that is no note
\* event and takes as long.
WithoutWeak(events) ==
    [i \in 1..Len(events) |->
        IF Weak(events[i]) THEN Msg("control_change", 0, 0, events[i].time)
        ELSE events[i]]

\* Every qualifying attack is released by the very next message, at once.
OnlyTaps(events) ==
    \A i \in 1..Len(events) :
        Qualifying(events[i]) =>
            /\ i < Len(events)
            /\ Release(events[i + 1])
            /\ events[i + 1].note = events[i].note
            /\ events[i + 1].time = 0

\* C18: an attack of a velocity strictly between 0 and 70 contributes no
\* keystroke and no interval, released or not: the answer is the one for the
\* stream without it. The keystroke count is the number of attacks of
\* velocity >= 70, released or not. An attack released at the same instant
\* is counted as a keystroke and yields no interval.
C18_VelocityThreshold ==
    (m_done /\ m_result.ok) =>
        LET events == m_mid.events IN
        /\ m_result.keystrokes
              = Cardinality({i \in 1..Len(events) : Qualifying(events[i])})
        /\ m_result = calculate_metrics_from_midi(MidiOf(WithoutWeak(events)),
                                                  m_duration)
        /\ (\A i \in 1..Len(events) : ~Qualifying(events[i])) => Intervals = <<>>
        /\ OnlyTaps(events) => Intervals = <<>>

\* A weak attack released after a while, then an attack at full velocity
\* released at the same instant: one keystroke, no interval.
C18_Witness ==
    /\ m_done
    /\ m_result.ok
    /\ \E i, j, k \in 1..Len(m_mid.events) :
           /\ i < j /\ j < k
           /\ Weak(m_mid.events[i])
           /\ Release(m_mid.events[j])
           /\ m_mid.events[j].note = m_mid.events[i].note
           /\ m_mid.events[j].time > 0
           /\ Qualifying(m_mid.events[k])
    /\ OnlyTaps(m_mid.events)
    /\ m_result.keystrokes = 1
    /\ Intervals = <<>>

\* The time of the i-th message: the sum of the deltas up to it.
RECURSIVE TimeOf(_, _)
TimeOf(events, i) == IF i = 0 THEN 0 ELSE TimeOf(events, i - 1) + events[i].time

\* The start the loop holds for a key after the first i messages.
PendingStart(events, i, note) ==
    LET st == RunLoop(LoopInit, SubSeq(events, 1, i))
    IN  st.active_notes[DictGet(st.active_notes, note)].start

Pending(events, i, note) ==
    DictHas(RunLoop(LoopInit, SubSeq(events, 1, i)).active_notes, note)

\* C20: an attack of velocity >= 70 on a key that has a pending unmatched
\* attack leaves the pending start as it is, and the interval closed by the
\* next release of the key starts at the earliest unmatched attack: some
\* returned interval spans from that attack to the release.
C20_KeepEarliestStart ==
    (m_done /\ m_result.ok) =>
        LET events == m_mid.events IN
        \A j \in 2..Len(events) :
            (Qualifying(events[j]) /\ Pending(events, j - 1, events[j].note)) =>
                LET note == events[j].note
                    first == PendingStart(events, j - 1, note)
                IN  /\ PendingStart(events, j, note) = first
                    /\ \A k \in (j + 1)..Len(events) :
                          ( /\ Release(events[k])
                            /\ events[k].note = note
                            /\ \A x \in (j + 1)..(k - 1) : events[x].note # note
                            /\ TimeOf(events, k) <= m_duration )
                          => \E n \in 1..Len(Intervals) :
                                /\ Intervals[n][1] <= first
                                /\ Intervals[n][2] >= TimeOf(events, k)

\* The i-th message is a qualifying attack that no later message releases
\* or repeats.
PendingAtEnd(events, i) ==
    /\ Qualifying(events[i])
    /\ \A k \in (i + 1)..Len(events) :
          ~( (Release(events[k]) \/ Qualifying(events[k]))
             /\ events[k].note = events[i].note )

QualifyingAt(events) == {i \in 1..Len(events) : Qualifying(events[i])}

\* C21: a note still pending when the stream ends is closed at the time of
\* the last message: when that is later than its attack, a returned
\* interval spans from the attack to the last message (and, for a stream
\* with that one attack, is exactly that span with its padding); attacks
\* that all fall on the time of the last message give no interval.
C21_EndOfStreamClosure ==
    (m_done /\ m_result.ok) =>
        LET events == m_mid.events
            last == TimeOf(events, Len(events))
        IN  /\ \A i \in 1..Len(events) :
                  ( /\ PendingAtEnd(events, i)
                    /\ TimeOf(events, i) < last
                    /\ last <= m_duration )
                  => /\ \E n \in 1..Len(Intervals) :
                          /\ Intervals[n][1] <= TimeOf(events, i)
                          /\ Intervals[n][2] >= last
                     /\ QualifyingAt(events) = {i}
                          => Intervals =
                               << <<IF TimeOf(events, i) >= 1
                                    THEN TimeOf(events, i) - 1 ELSE 0,
                                    IF last + 1 <= m_duration
                                    THEN last + 1 ELSE m_duration>> >>
            /\ (\A i \in QualifyingAt(events) : TimeOf(events, i) = last)
                  => Intervals = <<>>

\* One key struck and never released, the stream going on after the attack.
C21_Witness ==
    /\ m_done
    /\ m_result.ok
    /\ \E i \in 1..Len(m_mid.events) :
          /\ QualifyingAt(m_mid.events) = {i}
          /\ PendingAtEnd(m_mid.events, i)
          /\ TimeOf(m_mid.events, i) >= 1
          /\ TimeOf(m_mid.events, i) < TimeOf(m_mid.events, Len(m_mid.events))
    /\ TimeOf(m_mid.events, Len(m_mid.events)) < m_duration
    /\ Len(Intervals) = 1

\* The raw intervals handed to the merge, as a set.
RawSet == {RawIntervals(m_mid.events)[i] :
              i \in 1..Len(RawIntervals(m_mid.events))}

\* Two intervals no more than 2.0 s (4 ticks) apart.
Near(x, y) == y[1] - x[2] <= 4 /\ x[1] - y[2] <= 4

\* The intervals of raw linked to those of S by a chain of near intervals.
RECURSIVE Linked(_, _)
Linked(raw, S) ==
    LET more == S \cup {y \in raw : \E x \in S : Near(x, y)}
    IN  IF more = S THEN S ELSE Linked(raw, more)

\* The span of a set of intervals: from its first start to its last end.
Hull(S) ==
    << CHOOSE a \in {x[1] : x \in S} : \A x \in S : a <= x[1],
       CHOOSE b \in {x[2] : x \in S} : \A x \in S : b >= x[2] >>

\* The spans before padding: one for each chain of raw intervals.
SpansOf(raw) == {Hull(Linked(raw, {r})) : r \in raw}

Padded(h) ==
    << IF h[1] >= 1 THEN h[1] - 1 ELSE 0,
       IF h[2] + 1 <= m_duration THEN h[2] + 1 ELSE m_duration >>

\* C22: an interval is merged into the current span exactly when it starts
\* at most 2.0 s after the greatest end seen in the span, and the span is
\* sealed otherwise: the returned intervals are the padded spans of the
\* chains of raw intervals no more than 2.0 s apart. Before padding two
\* spans are more than 2.0 s apart, and a raw interval lies in exactly one.
C22_GapMerge ==
    (m_done /\ m_result.ok) =>
        LET raw == RawSet
            spans == SpansOf(raw)
        IN  /\ {Intervals[n] : n \in 1..Len(Intervals)} = {Padded(h) : h \in spans}
            /\ Len(Intervals) = Cardinality(spans)
            /\ \A g, h \in spans :
                  g # h => (h[1] - g[2] > 4 \/ g[1] - h[2] > 4)
            /\ \A r \in raw :
                  Cardinality({h \in spans : h[1] <= r[1] /\ r[2] <= h[2]}) = 1

\* Two raw intervals exactly 2.0 s apart, sealed as one span.
C22_Witness ==
    /\ m_done
    /\ m_result.ok
    /\ \E x, y \in RawSet : y[1] - x[2] = 4
    /\ Len(Intervals) = 1

(***************************************************************************)
(* Properties of the pipeline (Spec, FairSpec)                             *)
(***************************************************************************)

\* The file the worker is at.
AtWork == Head(wfiles)

\* The worker takes the step of the place it is at.
WorkerLeaves(pc) == wpc = pc /\ wpc' # pc

ZeroMetrics(r) ==
    /\ r.active_duration = 0
    /\ r.efficiency.num = 0
    /\ r.keystrokes = 0

\* C1: in every reachable state the store holds at most one session per
\* fingerprint, whatever arrived in the inbox, under whatever name, in
\* whatever poll cycle; and when the worker has taken a second copy of a
\* content out of the inbox, the store holds exactly one session for it.
C1_OneSessionPerFingerprint ==
    /\ [](\A r \in DOMAIN db : RowsWith(db, r.hash) = 1)
    /\ [][ ( /\ WorkerLeaves("hash")
              /\ Exists(inbox, AtWork)
              /\ ~Exists(inbox', AtWork) )
            => RowsWith(db', get_file_hash(inbox[AtWork])) = 1 ]_vars

\* A recording with a session, filed in the archive, is in the inbox a
\* second time under another name, whole, and the worker is about to look
\* its hash up.
C1_Witness ==
    /\ wpc = "hash"
    /\ Exists(inbox, AtWork)
    /\ inbox[AtWork].size = 1
    /\ \E r \in DOMAIN db :
        /\ r.hash = get_file_hash(inbox[AtWork])
        /\ r.filename # AtWork
        /\ Exists(archive, r.filename)
        /\ archive[r.filename] = inbox[AtWork]

\* C6: a failed transcription of a file that decodes and is not silent
\* (the model raises, leaves no artifact, or leaves one no metrics can be
\* computed from) still yields a result, all zero with an empty interval
\* list; the commit stores the session with these values and the file goes
\* on to the archival step, which moves it out of the inbox.
C6_DegradedSessionIsKept ==
    [][ /\ ( /\ WorkerLeaves("analyze")
             /\ Exists(inbox, AtWork)
             /\ Decodable(inbox[AtWork].content)
             /\ ~RmsAllZero(inbox[AtWork].content) )
           => /\ wpc' = "commit"
              /\ wtrans' \in {"ok", "unreadable", "absent"}
              /\ wtrans' # "ok" =>
                    /\ ZeroMetrics(wresult')
                    /\ wresult'.intervals = <<>>
                    /\ wresult'.total_duration = DurationOf(inbox[AtWork].content)
        /\ ( /\ WorkerLeaves("commit")
             /\ wtrans \in {"unreadable", "absent"}
             /\ wpc' # "except" )
           => /\ wpc' = "archive"
              /\ \E r \in DOMAIN db' :
                    /\ r.hash = whash
                    /\ ZeroMetrics(r)
                    /\ r.intervals_json = <<>>
        /\ ( /\ WorkerLeaves("archive")
             /\ wtrans \in {"unreadable", "absent"}
             /\ Exists(inbox, AtWork)
             /\ inbox' # inbox )
           => /\ ~Exists(inbox', AtWork)
              /\ \E n \in DOMAIN archive' : archive'[n] = inbox[AtWork]
      ]_vars

\* A recording with notes in it has an all-zero session and lies in the
\* archive under the name of the session, no longer in the inbox.
C6_Witness ==
    \E r \in DOMAIN db, c \in {"etude", "scales"} :
        /\ r.hash = get_file_hash(FileOf(c, 1))
        /\ ZeroMetrics(r)
        /\ r.intervals_json = <<>>
        /\ r.midi_url = NoMidi
        /\ Exists(archive, r.filename)
        /\ archive[r.filename].content = c
        /\ ~Exists(inbox, r.filename)

C8_LoopSurvives ==
    /\ [][(wpc # "except" /\ wpc' = "except") => inbox' = inbox]_vars
    /\ \A f \in Names :
        (wpc = "except" /\ AtWork = f /\ Exists(inbox, f))
            ~> (wpc = "size1" /\ f \in Range(wfiles))

\* The commit of an analysed file has raised.
C8_Witness ==
    /\ wpc = "except"
    /\ wtrans # "none"
    /\ Exists(inbox, AtWork)

\* C9: the file a reprocess request copies into the inbox is never removed
\* by the duplicate branch as a duplicate of the session being reprocessed.
C9_ReinjectedNeverDuplicate ==
    [][ ~ ( /\ apc = "reprocess"
            /\ WorkerLeaves("hash")
            /\ AtWork = areq.filename
            /\ Exists(inbox, AtWork)
            /\ get_file_hash(inbox[AtWork]) = areq.hash
            /\ ~Exists(inbox', AtWork) )
      ]_vars

\* C10: a file whose hash already has a session is removed from the inbox
\* in the step that looks the hash up; it is not analysed, the archive, the
\* store and the MIDI folder stay as they were and the worker goes on to
\* the next file.
C10_DuplicateIsDiscarded ==
    [][ ( /\ WorkerLeaves("hash")
          /\ wpc' # "except"
          /\ Exists(inbox, AtWork)
          /\ HasSession(db, get_file_hash(inbox[AtWork])) )
        => /\ inbox' = Remove(inbox, AtWork)
           /\ archive' = archive
           /\ db' = db
           /\ mididir' = mididir
           /\ wpc' \in {"size1", "scan"}
           /\ wfiles' = Tail(wfiles)
           /\ wtrans' = "none"
      ]_vars

\* The worker is about to look up the hash of a stable file that has a
\* session.
C10_Witness ==
    /\ wpc = "hash"
    /\ Exists(inbox, AtWork)
    /\ HasSession(db, get_file_hash(inbox[AtWork]))

\* C11: a file whose second size sample differs from the first, or is
\* zero, is passed over in that cycle: the step changes no file, no session
\* and no artifact, computes no hash, and the worker goes on to the rest of
\* the listing. The worker comes to hash a file only from a size check the
\* file passed, to analyse only from the hash, to commit only from the
\* analysis, and a session is added only by the commit.
C11_StabilityGate ==
    [][ /\ ( /\ WorkerLeaves("size2")
             /\ Exists(inbox, AtWork)
             /\ (getsize(inbox[AtWork]) # winit_size \/ getsize(inbox[AtWork]) = 0) )
           => /\ inbox' = inbox
              /\ archive' = archive
              /\ mididir' = mididir
              /\ db' = db
              /\ whash' = ""
              /\ wtrans' = "none"
              /\ wpc' \in {"size1", "scan"}
              /\ wfiles' = Tail(wfiles)
        /\ (wpc # "hash" /\ wpc' = "hash")
           => /\ wpc = "size2"
              /\ wfiles' = wfiles
              /\ Exists(inbox, AtWork)
              /\ getsize(inbox[AtWork]) = winit_size
              /\ getsize(inbox[AtWork]) # 0
        /\ (wpc # "analyze" /\ wpc' = "analyze") => (wpc = "hash" /\ wfiles' = wfiles)
        /\ (wpc # "commit" /\ wpc' = "commit") => (wpc = "analyze" /\ wfiles' = wfiles)
        /\ ({r.hash : r \in DOMAIN db'} \ {r.hash : r \in DOMAIN db} # {})
           => (wpc = "commit" /\ wfiles' = wfiles)
      ]_vars

\* The file grew between the two samples: the worker is about to compare.
C11_Witness ==
    /\ wpc = "size2"
    /\ Exists(inbox, AtWork)
    /\ winit_size = 0
    /\ inbox[AtWork].size = 1

\* C12: when the move into the archive fails after the commit, the step
\* leaves the store as it is (the session stays, with its metrics), no
\* exception reaches the handler of the loop, and the worker goes on to the
\* next file of the listing.
C12_ArchivalFailureIsNotFatal ==
    [][ ( /\ WorkerLeaves("archive")
          /\ Exists(inbox, AtWork)
          /\ Exists(inbox', AtWork) )
        => /\ db' = db
           /\ inbox' = inbox
           /\ archive' = archive
           /\ mididir' = mididir
           /\ wpc' \in {"size1", "scan"}
           /\ wfiles' = Tail(wfiles)
      ]_vars

\* The worker has finished its listing; a recording has its session under
\* its own name and still lies in the inbox, and no copy of it is in the
\* archive: its move has failed.
C12_Witness ==
    /\ wpc = "scan"
    /\ \E f \in DOMAIN inbox, r \in DOMAIN db :
        /\ inbox[f].size = 1
        /\ r.hash = get_file_hash(inbox[f])
        /\ r.filename = f
        /\ r.keystrokes > 0
        /\ \A n \in DOMAIN archive : archive[n] # inbox[f]

\* A step in which an admin route answers, and the answer.
Answers == Len(aresp') = Len(aresp) + 1
Answer == aresp'[Len(aresp')]

FilesAndStoreUnchanged ==
    /\ db' = db
    /\ inbox' = inbox
    /\ archive' = archive
    /\ mididir' = mididir

\* C13: a request on a hash without a session is answered 404, a reprocess
\* of a session whose filename is not in the archive 400, a recompute of a
\* session without an artifact reference or without its artifact file 404;
\* each of these steps, and every step answered 400 or 404, leaves the
\* store, the inbox, the archive and the MIDI folder exactly as they were.
C13_AdminErrorsChangeNothing ==
    [][ Answers =>
        /\ ~HasSession(db, Answer.hash)
           => (Answer.code = 404 /\ FilesAndStoreUnchanged)
        /\ ( /\ Answer.route = "reprocess"
             /\ HasSession(db, Answer.hash)
             /\ ~Exists(archive, GetSession(db, Answer.hash).filename) )
           => (Answer.code = 400 /\ FilesAndStoreUnchanged)
        /\ ( /\ Answer.route = "recalc_stats"
             /\ HasSession(db, Answer.hash)
             /\ \/ GetSession(db, Answer.hash).midi_url = NoMidi
                \/ ~Exists(mididir, GetSession(db, Answer.hash).midi_url) )
           => (Answer.code = 404 /\ FilesAndStoreUnchanged)
        /\ Answer.code \in {400, 404} => FilesAndStoreUnchanged
      ]_vars

\* A recompute has been refused with 404 for a session that is in the
\* store and names an artifact the MIDI folder does not hold.
C13_Witness ==
    \E i \in 1..Len(aresp) :
        /\ aresp[i].route = "recalc_stats"
        /\ aresp[i].code = 404
        /\ HasSession(db, aresp[i].hash)
        /\ GetSession(db, aresp[i].hash).midi_url # NoMidi
        /\ ~Exists(mididir, GetSession(db, aresp[i].hash).midi_url)
        /\ inputs = 1

RecomputedRow(table, dir, h) ==
    LET s == GetSession(table, h)
        metrics == calculate_metrics_from_midi(dir[s.midi_url].mid, s.total_duration)
    IN  [s EXCEPT !.active_duration = metrics.active_duration,
                  !.efficiency = metrics.efficiency,
                  !.keystrokes = metrics.keystrokes,
                  !.intervals_json = metrics.intervals]

Copies(f) == IF f \in DOMAIN copied THEN copied[f] ELSE 0

\* C16: with the ledger lost at any moment the store never holds two
\* sessions of one hash, and a copy the scanner makes of a file it has
\* copied before (which it makes only after a loss) creates no session: the
\* worker commits a recording of the drive only from its first copy, so the
\* sessions are the ones an intact ledger leads to.
C16_LedgerLossIsAbsorbed ==
    /\ [](\A r \in DOMAIN db : RowsWith(db, r.hash) = 1)
    /\ [][ ( /\ WorkerLeaves("commit")
             /\ wpc' = "archive"
             /\ Exists(volume, AtWork)
             /\ whash = get_file_hash(volume[AtWork]) )
           => Copies(AtWork) <= 1 ]_vars


(***************************************************************************)
(* Properties of the start time (SpecStart)                                *)
(***************************************************************************)

\* mtime minus total_duration, for a file that has an mtime
Derived == MinusHours(fromtimestamp(t_in.mtime), t_in.total_duration)

\* The name begins with six digits.
HasPrefix == Len(t_in.f) >= 6 /\ \A i \in 1..6 : Digit(t_in.f[i])

PrefixYY == 10 * DigitVal(t_in.f[1]) + DigitVal(t_in.f[2])
PrefixMM == 10 * DigitVal(t_in.f[3]) + DigitVal(t_in.f[4])
PrefixDD == 10 * DigitVal(t_in.f[5]) + DigitVal(t_in.f[6])

\* The six digits are a date in YYMMDD form.
PrefixIsDate ==
    /\ PrefixMM >= 1 /\ PrefixMM <= 12
    /\ PrefixDD >= 1 /\ PrefixDD <= DaysIn(2000 + PrefixYY, PrefixMM)

\* The date of a datetime is the one the prefix names.
OnPrefixDate(dt) ==
    dt.year % 100 = PrefixYY /\ dt.month = PrefixMM /\ dt.day = PrefixDD

\* C19: the stored start time is the modification time minus
\* total_duration; when the name begins with six digits that are a valid
\* YYMMDD date other than the date of that value, year, month and day are
\* those of the name and the time of day is kept; when the prefix is absent,
\* is no valid date or names the derived date, the derived value is stored
\* as it is.
C19_StartTimeDerivation ==
    (t_out.done /\ t_in.mtime # NoMtime) =>
        /\ PlusHours(Derived, t_in.total_duration) = fromtimestamp(t_in.mtime)
        /\ IF HasPrefix /\ PrefixIsDate /\ ~OnPrefixDate(Derived)
           THEN /\ OnPrefixDate(t_out.dt_start)
                /\ t_out.dt_start.hour = Derived.hour
           ELSE t_out.dt_start = Derived

\* 260207_ modified at midnight of 7 Feb 2026 after an hour of recording: the
\* derived value lies on 6 Feb at 23 o'clock, the stored one on 7 Feb at 23.
C19_Witness ==
    /\ t_out.done
    /\ t_in.f = <<"2", "6", "0", "2", "0", "7", "_">>
    /\ t_in.mtime # NoMtime
    /\ DateOf(fromtimestamp(t_in.mtime)) = <<2026, 2, 7>>
    /\ DateOf(Derived) = <<2026, 2, 6>>
    /\ t_out.dt_start = DateTime(2026, 2, 7, 23)


\* C23: when the worker moves the file at work into the archive, the files
\* the archive held stay as they were and the moved file is a new entry of
\* the archive, under a name disambiguated by the fingerprint when the
\* archive already has the file's name; so also when the disambiguated
\* name is itself taken.
C23_ArchiveNeverOverwrites ==
    [][ ( /\ WorkerLeaves("archive")
          /\ Exists(inbox, AtWork)
          /\ ~Exists(inbox', AtWork) )
        => /\ \A n \in DOMAIN archive :
                Exists(archive', n) /\ archive'[n] = archive[n]
           /\ \E d \in DOMAIN archive' \ DOMAIN archive :
                /\ archive'[d] = inbox[AtWork]
                /\ d = IF Exists(archive, AtWork)
                       THEN Disambiguated(AtWork, whash) ELSE AtWork
      ]_vars


\* A directory holds a file with the bytes of the recording of a session.
HoldsSource(dir, r) == \E n \in DOMAIN dir : get_file_hash(dir[n]) = r.hash

\* C24: as long as no admin request has been served, every session has a
\* file with its recording in the inbox or in the archive; so also after a
\* failed move to the archive, when later cycles find the file again.
C24_NoRecordingLost ==
    (aresp = <<>> /\ apc = "idle") =>
        \A r \in DOMAIN db : HoldsSource(inbox, r) \/ HoldsSource(archive, r)


\* The worker is in the handler of line 176 only for a file that it has
\* hashed and that cannot be decoded.
OnlyUndecodableRaises ==
    wpc = "except" =>
        /\ whash # ""
        /\ wfiles # <<>>
        /\ Exists(inbox, Head(wfiles))
        /\ ~Decodable(inbox[Head(wfiles)].content)

\* C25: when the ingestion loop keeps running and only undecodable files
\* raise, a whole, decodable recording in the inbox comes to have its
\* session, also when another file of the inbox raises on every attempt.
C25_NoStarvation ==
    ([]OnlyUndecodableRaises) =>
        \A c \in Contents :
            ( /\ Decodable(c)
              /\ Exists(inbox, <<"b">>)
              /\ inbox[<<"b">>] = FileOf(c, 1) )
            ~> HasSession(db, get_file_hash(FileOf(c, 1)))


\* C26: the file a reprocess request copies into the inbox has the
\* fingerprint of the session the request goes on to delete; so also when
\* the recording of the session lies in the archive under a disambiguated
\* name.
C26_ReprocessCopiesOwnRecording ==
    [][ (apc = "idle" /\ apc' = "reprocess")
        => /\ Exists(inbox', areq'.filename)
           /\ get_file_hash(inbox'[areq'.filename]) = areq'.hash
      ]_vars


\* C27: the artifact a session refers to, when it is there, was produced
\* from the recording of that session; no analysis, delete or reprocess of
\* another session replaces it.
C27_ArtifactOwnership ==
    \A r \in DOMAIN db :
        (r.midi_url # NoMidi /\ Exists(mididir, r.midi_url))
            => get_file_hash(FileOf(mididir[r.midi_url].from, 1)) = r.hash

=============================================================================
